---- MODULE Spec2Model ----
(***************************************************************************)
(* Model of the iced_proto editor (src/src/main.rs): the Editor state, the *)
(* message handler Editor::update, and the asynchronous file commands it   *)
(* schedules (load_file, open_file, save_file), whose results come back as *)
(* FileOpened / FileSaved messages.                                        *)
(***************************************************************************)
EXTENDS Integers, Sequences, FiniteSets, TLC

VARIABLES theme, fragment_index, fragments, pending, last

vars == <<theme, fragment_index, fragments, pending, last>>

\* ---------------------------------------------------------------- bounds
MaxTabs == 2        \* TabNew is offered while fewer tabs than this are open
MaxLen == 1         \* longest text of a buffer or of a file that is read

\* ------------------------------------------------------------ value sets
None == "None"
DefaultFile == "main.rs"
Paths == {DefaultFile, "other.txt"}
Chars == {"a"}
Themes == {"SolarizedDark", "InspiredGitHub"}
DialogClosed == "DialogClosed"
IoError == "IoError"

RECURSIVE TextsOfLen(_)
TextsOfLen(n) ==
    IF n = 0 THEN {<<>>}
    ELSE {Append(t, c) : t \in TextsOfLen(n - 1), c \in Chars}

Texts == UNION {TextsOfLen(n) : n \in 0..MaxLen}

\* text_editor::Action: Move is a cursor-only action, the others are Edit(_)
Actions == {[kind |-> "Move"], [kind |-> "Backspace"]}
               \cup {[kind |-> "Insert", char |-> c] : c \in Chars}

is_edit(action) == action.kind # "Move"

\* --------------------------------------------------------- text buffers
ContentNew == <<>>

ContentWithText(contents) == contents

\* Content::text(): the lines joined by newlines, newline-terminated
ContentText(content) ==
    IF Len(content) > 0 /\ content[Len(content)] = "\n"
    THEN content ELSE Append(content, "\n")

\* Content::perform(action), the cursor kept at the end of the text
Perform(content, action) ==
    CASE action.kind = "Insert" -> Append(content, action.char)
      [] action.kind = "Backspace" ->
            IF Len(content) = 0 THEN content
            ELSE SubSeq(content, 1, Len(content) - 1)
      [] OTHER -> content

\* --------------------------------------------------------------- state
FragmentContent(file, content, is_loading, is_dirty) ==
    [file |-> file, content |-> content,
     is_loading |-> is_loading, is_dirty |-> is_dirty]

\* the fragment `update` borrows: &mut self.fragments[self.fragment_index]
fragment == fragments[fragment_index + 1]

SetFragment(f) == [fragments EXCEPT ![fragment_index + 1] = f]

RemoveAt(s, i) == SubSeq(s, 1, i - 1) \o SubSeq(s, i + 1, Len(s))

\* Command::perform(future, Message::...): a task in flight.  origin is the
\* fragment index at the time of scheduling (kept for the properties only;
\* the handlers never read it).
Command(kind, path, contents) ==
    [kind |-> kind, origin |-> fragment_index, path |-> path,
     contents |-> contents]

Msg(msg, arg, cmd) == [msg |-> msg, arg |-> arg, cmd |-> cmd]

Init ==
    /\ theme = "SolarizedDark"
    /\ fragment_index = 0
    /\ fragments = <<FragmentContent(None, ContentNew, TRUE, FALSE)>>
    /\ pending = <<[kind |-> "load", origin |-> 0, path |-> DefaultFile,
                    contents |-> <<>>]>>
    /\ last = Msg("new", "-", "perform")

\* ------------------------------------------------- results of the tasks
Ok(path, contents) == [ok |-> TRUE, path |-> path, contents |-> contents]
Err(error) == [ok |-> FALSE, error |-> error]

ResultTag(result) == IF result.ok THEN "Ok" ELSE result.error

load_file(path) ==
    {Ok(path, c) : c \in Texts} \cup {Err(IoError)}

open_file ==
    {Err(DialogClosed)} \cup UNION {load_file(p) : p \in Paths}

\* mutant: the save dialog is shown even when the fragment has a path
save_file_AlwaysPicks(path, contents) ==
    {Err(DialogClosed), Err(IoError)} \cup {Ok(p, <<>>) : p \in Paths}

save_file(path, contents) ==
    IF path # None
    THEN {Ok(path, <<>>), Err(IoError)}
    ELSE {Err(DialogClosed), Err(IoError)} \cup {Ok(p, <<>>) : p \in Paths}

TaskResults(op) ==
    CASE op.kind = "load" -> load_file(op.path)
      [] op.kind = "open" -> open_file
      [] op.kind = "save" -> save_file(op.path, op.contents)

\* --------------------------------------------------- Editor::update arms
\* mutant: every action, cursor moves included, marks the fragment dirty
ActionPerformed_AlwaysDirty(action) ==
    /\ Len(Perform(fragment.content, action)) <= MaxLen
    /\ fragments' = SetFragment(
            [fragment EXCEPT
                !.is_dirty = TRUE,
                !.content = Perform(fragment.content, action)])
    /\ last' = Msg("ActionPerformed",
                   IF is_edit(action) THEN "edit" ELSE "move", "none")
    /\ UNCHANGED <<theme, fragment_index, pending>>

ActionPerformed(action) ==
    /\ Len(Perform(fragment.content, action)) <= MaxLen
    /\ fragments' = SetFragment(
            [fragment EXCEPT
                !.is_dirty = fragment.is_dirty \/ is_edit(action),
                !.content = Perform(fragment.content, action)])
    /\ last' = Msg("ActionPerformed",
                   IF is_edit(action) THEN "edit" ELSE "move", "none")
    /\ UNCHANGED <<theme, fragment_index, pending>>

ThemeSelected(t) ==
    /\ theme' = t
    /\ last' = Msg("ThemeSelected", "-", "none")
    /\ UNCHANGED <<fragment_index, fragments, pending>>

\* mutant: NewFile also clears is_dirty
NewFile_ClearsDirty ==
    /\ fragments' =
        IF ~fragment.is_loading
        THEN SetFragment([fragment EXCEPT !.file = None,
                                          !.content = ContentNew,
                                          !.is_dirty = FALSE])
        ELSE fragments
    /\ last' = Msg("NewFile", "-", "none")
    /\ UNCHANGED <<theme, fragment_index, pending>>

NewFile ==
    /\ fragments' =
        IF ~fragment.is_loading
        THEN SetFragment([fragment EXCEPT !.file = None,
                                          !.content = ContentNew])
        ELSE fragments
    /\ last' = Msg("NewFile", "-", "none")
    /\ UNCHANGED <<theme, fragment_index, pending>>

\* mutant: the is_loading guard of OpenFile is missing
OpenFile_Unguarded ==
    /\ fragments' = SetFragment([fragment EXCEPT !.is_loading = TRUE])
    /\ pending' = Append(pending, Command("open", None, <<>>))
    /\ last' = Msg("OpenFile", "-", "perform")
    /\ UNCHANGED <<theme, fragment_index>>

OpenFile ==
    /\ IF fragment.is_loading
       THEN /\ last' = Msg("OpenFile", "-", "none")
            /\ UNCHANGED <<fragments, pending>>
       ELSE /\ fragments' = SetFragment([fragment EXCEPT !.is_loading = TRUE])
            /\ pending' = Append(pending, Command("open", None, <<>>))
            /\ last' = Msg("OpenFile", "-", "perform")
    /\ UNCHANGED <<theme, fragment_index>>

\* mutant: a failed open empties the buffer and forgets the file
FileOpenedUpdate_ErrClears(result) ==
    /\ fragments' = SetFragment(
            IF result.ok
            THEN FragmentContent(result.path,
                                 ContentWithText(result.contents),
                                 FALSE, FALSE)
            ELSE FragmentContent(None, ContentNew, FALSE, FALSE))
    /\ last' = Msg("FileOpened", ResultTag(result), "none")
    /\ UNCHANGED <<theme, fragment_index>>

FileOpenedUpdate(result) ==
    /\ fragments' = SetFragment(
            IF result.ok
            THEN FragmentContent(result.path,
                                 ContentWithText(result.contents),
                                 FALSE, FALSE)
            ELSE [fragment EXCEPT !.is_loading = FALSE, !.is_dirty = FALSE])
    /\ last' = Msg("FileOpened", ResultTag(result), "none")
    /\ UNCHANGED <<theme, fragment_index>>

\* mutant: the is_loading guard of SaveFile is missing
SaveFile_Unguarded ==
    /\ fragments' = SetFragment([fragment EXCEPT !.is_loading = TRUE])
    /\ pending' = Append(pending,
            Command("save", fragment.file, ContentText(fragment.content)))
    /\ last' = Msg("SaveFile", "-", "perform")
    /\ UNCHANGED <<theme, fragment_index>>

SaveFile ==
    /\ IF fragment.is_loading
       THEN /\ last' = Msg("SaveFile", "-", "none")
            /\ UNCHANGED <<fragments, pending>>
       ELSE /\ fragments' = SetFragment([fragment EXCEPT !.is_loading = TRUE])
            /\ pending' = Append(pending,
                    Command("save", fragment.file,
                            ContentText(fragment.content)))
            /\ last' = Msg("SaveFile", "-", "perform")
    /\ UNCHANGED <<theme, fragment_index>>

\* mutant: is_dirty is cleared before the result is looked at
FileSavedUpdate_ClearsDirty(result) ==
    /\ fragments' = SetFragment(
            IF result.ok
            THEN [fragment EXCEPT !.is_loading = FALSE,
                                  !.file = result.path,
                                  !.is_dirty = FALSE]
            ELSE [fragment EXCEPT !.is_loading = FALSE, !.is_dirty = FALSE])
    /\ last' = Msg("FileSaved", ResultTag(result), "none")
    /\ UNCHANGED <<theme, fragment_index>>

FileSavedUpdate(result) ==
    /\ fragments' = SetFragment(
            IF result.ok
            THEN [fragment EXCEPT !.is_loading = FALSE,
                                  !.file = result.path,
                                  !.is_dirty = FALSE]
            ELSE [fragment EXCEPT !.is_loading = FALSE])
    /\ last' = Msg("FileSaved", ResultTag(result), "none")
    /\ UNCHANGED <<theme, fragment_index>>

TabSelected(index) ==
    /\ last' = Msg("TabSelected", index, "none")
    /\ UNCHANGED <<theme, fragment_index, fragments, pending>>

\* mutant: TabClosed removes the fragment and leaves fragment_index alone
TabClosed_Removes(index) ==
    /\ fragments' = RemoveAt(fragments, index + 1)
    /\ last' = Msg("TabClosed", index, "none")
    /\ UNCHANGED <<theme, fragment_index, pending>>

TabClosed(index) ==
    /\ last' = Msg("TabClosed", index, "none")
    /\ UNCHANGED <<theme, fragment_index, fragments, pending>>

\* mutant: TabNew pushes the fragment without activating it
TabNew_KeepIndex ==
    /\ Len(fragments) < MaxTabs
    /\ fragments' = Append(fragments,
                           FragmentContent(None, ContentNew, TRUE, FALSE))
    /\ last' = Msg("TabNew", "-", "none")
    /\ UNCHANGED <<theme, fragment_index, pending>>

\* mutant: the new fragment is created with is_loading: false
TabNew_Idle ==
    /\ Len(fragments) < MaxTabs
    /\ fragments' = Append(fragments,
                           FragmentContent(None, ContentNew, FALSE, FALSE))
    /\ fragment_index' = Len(fragments')  - 1
    /\ last' = Msg("TabNew", "-", "none")
    /\ UNCHANGED <<theme, pending>>

TabNew ==
    /\ Len(fragments) < MaxTabs
    /\ fragments' = Append(fragments,
                           FragmentContent(None, ContentNew, TRUE, FALSE))
    /\ fragment_index' = Len(fragments')  - 1
    /\ last' = Msg("TabNew", "-", "none")
    /\ UNCHANGED <<theme, pending>>

\* ------------------------------------ the runtime delivering task results
\* A scheduled task finishes with one of its results and the runtime hands
\* the resulting message to update.
FileOpened(i) ==
    /\ pending[i].kind \in {"load", "open"}
    /\ pending' = RemoveAt(pending, i)
    /\ \E result \in TaskResults(pending[i]) : FileOpenedUpdate(result)

FileSaved(i) ==
    /\ pending[i].kind = "save"
    /\ pending' = RemoveAt(pending, i)
    /\ \E result \in TaskResults(pending[i]) : FileSavedUpdate(result)

Next ==
    \/ \E action \in Actions : ActionPerformed(action)
    \/ \E t \in Themes : ThemeSelected(t)
    \/ NewFile
    \/ OpenFile
    \/ \E i \in DOMAIN pending : FileOpened(i)
    \/ SaveFile
    \/ \E i \in DOMAIN pending : FileSaved(i)
    \/ \E index \in 0..(Len(fragments) - 1) : TabSelected(index)
    \/ \E index \in 0..(Len(fragments) - 1) : TabClosed(index)
    \/ TabNew

Spec == Init /\ [][Next]_vars

\* The executor runs every scheduled task to its end and the runtime delivers
\* its message: a result that can be delivered is eventually delivered.
\* Nothing obliges the user to produce any other message.
FairSpec ==
    /\ Spec
    /\ WF_vars(\E i \in DOMAIN pending : FileOpened(i))
    /\ WF_vars(\E i \in DOMAIN pending : FileSaved(i))

\* ================================================================ claims
Completions == {"FileOpened", "FileSaved"}

\* the step delivers the result of the task pending[i]
Completes(i) ==
    /\ last'.msg \in Completions
    /\ pending' = RemoveAt(pending, i)

\* fragment d has a task in flight that was scheduled for it
Outstanding(d) == \E i \in DOMAIN pending : pending[i].origin = d - 1

\* C1: in every reachable state there is at least one fragment and
\* fragment_index is a valid position, 0 <= fragment_index < len; TabClosed
\* on the only tab does not empty the editor.
C1_IndexValid ==
    /\ Len(fragments) >= 1
    /\ fragment_index >= 0
    /\ fragment_index < Len(fragments)

C1_Witness == last.msg = "TabClosed" /\ Len(fragments) = 1

\* C2 (as claimed): a completion is applied to the fragment that was active
\* when its task was scheduled: that fragment leaves Loading and no other
\* fragment is modified.
C2_RoutedToOrigin ==
    [][\A i \in DOMAIN pending :
         Completes(i) =>
            /\ ~fragments'[pending[i].origin + 1].is_loading
            /\ \A d \in DOMAIN fragments :
                  d # pending[i].origin + 1 => fragments'[d] = fragments[d]]_vars

C4_DirtyClearedOnlyBySuccess ==
    [][\A d \in DOMAIN fragments :
          (fragments[d].is_dirty /\ ~fragments'[d].is_dirty)
             => (last'.msg \in Completions /\ last'.arg = "Ok")]_vars

\* C5: OpenFile, SaveFile or NewFile while the active fragment is loading
\* schedules nothing and leaves fragments, fragment_index and the tasks in
\* flight unchanged.
C5_Reentrancy ==
    [][(last'.msg \in {"OpenFile", "SaveFile", "NewFile"}
            /\ fragment.is_loading)
          => /\ last'.cmd = "none"
             /\ UNCHANGED <<fragments, fragment_index, pending, theme>>]_vars

C5_Witness ==
    /\ last.msg = "OpenFile"
    /\ last.cmd = "none"
    /\ fragment.is_loading
    /\ Len(pending) = 1
    /\ pending[1].kind = "open"

\* C6: no two tasks in flight were scheduled for the same fragment.
C6_OnePerDocument ==
    \A i, j \in DOMAIN pending :
        i # j => pending[i].origin # pending[j].origin

C6_Witness ==
    /\ last.msg = "SaveFile"
    /\ last.cmd = "none"
    /\ Outstanding(fragment_index + 1)

\* C7 (as claimed): a fragment has is_loading = TRUE exactly when a task
\* scheduled for it is in flight.
C7_LoadingIffOutstanding ==
    \A d \in DOMAIN fragments : fragments[d].is_loading <=> Outstanding(d)

\* C8: TabNew appends one fragment with no file, an empty buffer and
\* is_dirty = FALSE, keeps the earlier fragments as they were and in order,
\* and makes the new last position the active one.
C8_TabNewAppends ==
    [][last'.msg = "TabNew"
          => /\ Len(fragments') = Len(fragments) + 1
             /\ SubSeq(fragments', 1, Len(fragments)) = fragments
             /\ fragment_index' = Len(fragments)
             /\ fragments'[Len(fragments')].file = None
             /\ fragments'[Len(fragments')].content = ContentNew
             /\ ~fragments'[Len(fragments')].is_dirty]_vars

C8_Witness ==
    /\ last.msg = "TabNew"
    /\ Len(fragments) = 2
    /\ fragment_index = 1
    /\ fragments[1].file # None
    /\ fragments[1].is_dirty

\* C9 (as claimed): the fragment created by TabNew is not loading right
\* after TabNew.
C9_NewTabIdle ==
    [][last'.msg = "TabNew" => ~fragments'[Len(fragments')].is_loading]_vars

\* C10 (as claimed): the editor starts with one clean, loading fragment
\* without a file at index 0 and one load of the default file in flight;
\* when that load succeeds, that fragment stops loading and holds the loaded
\* text and path.
C10_DefaultLoad ==
    /\ Len(fragments) = 1
    /\ fragments[1] = FragmentContent(None, ContentNew, TRUE, FALSE)
    /\ fragment_index = 0
    /\ Len(pending) = 1
    /\ pending[1].kind = "load"
    /\ pending[1].path = DefaultFile
    /\ [][\A i \in DOMAIN pending :
           \A result \in TaskResults(pending[i]) :
              (/\ pending[i].kind = "load"
               /\ result.ok
               /\ pending' = RemoveAt(pending, i)
               /\ FileOpenedUpdate(result))
                 => /\ ~fragments'[1].is_loading
                    /\ fragments'[1].content = result.contents
                    /\ fragments'[1].file = result.path]_vars

C13_CloseRemoves ==
    [][(last'.msg = "TabClosed" /\ Len(fragments) > 1)
          => /\ fragments' = RemoveAt(fragments, last'.arg + 1)
             /\ fragment_index' =
                   IF fragment_index < Len(fragments') - 1
                   THEN fragment_index ELSE Len(fragments') - 1]_vars

\* C14 (as claimed): TabSelected(i) with i in range makes i the active index
\* and changes no fragment.
C14_SelectActivates ==
    [][(last'.msg = "TabSelected" /\ last'.arg \in 0..(Len(fragments) - 1))
          => /\ fragment_index' = last'.arg
             /\ fragments' = fragments]_vars

\* C15 (as claimed): NewFile on an active fragment that is not loading leaves
\* it with no file, an empty buffer, is_dirty = FALSE and is_loading = FALSE.
C15_NewFileClean ==
    [][(last'.msg = "NewFile" /\ ~fragment.is_loading)
          => fragments'[fragment_index + 1]
                = FragmentContent(None, ContentNew, FALSE, FALSE)]_vars

\* C15 (amended): NewFile on an active fragment that is not loading leaves it
\* with no file, an empty buffer and is_loading = FALSE, and leaves is_dirty
\* as it was; no other fragment changes.
C15_NewFileKeepsDirty ==
    [][(last'.msg = "NewFile" /\ ~fragment.is_loading)
          => fragments' = SetFragment(
                FragmentContent(None, ContentNew, FALSE, fragment.is_dirty))]_vars

C15_Witness ==
    /\ last.msg = "NewFile"
    /\ ~fragment.is_loading
    /\ fragment.is_dirty
    /\ fragment.file = None
    /\ fragment.content = ContentNew

\* C16 (as claimed): an ActionPerformed handled while the active fragment is
\* loading changes neither its content nor its is_dirty.
C16_NoEditWhileLoading ==
    [][(last'.msg = "ActionPerformed" /\ fragment.is_loading)
          => /\ fragments'[fragment_index + 1].content = fragment.content
             /\ fragments'[fragment_index + 1].is_dirty
                   = fragment.is_dirty]_vars

\* C17: a SaveFile accepted on a fragment changes only its is_loading, and
\* when the next message is the successful FileSaved of that save, on a
\* fragment that has a file and is clean, the fragment is again as it was
\* before the request: same file, same content, is_dirty = FALSE,
\* is_loading = FALSE.
C17_SaveCleanIdempotent ==
    [][/\ (last'.msg = "SaveFile" /\ last'.cmd = "perform")
             => /\ ~fragment.is_loading
                /\ fragments' = SetFragment([fragment EXCEPT !.is_loading = TRUE])
       /\ (/\ last.msg = "SaveFile"
           /\ last.cmd = "perform"
           /\ fragment.file # None
           /\ ~fragment.is_dirty
           /\ last'.msg = "FileSaved"
           /\ last'.arg = "Ok")
             => fragments' = SetFragment([fragment EXCEPT !.is_loading = FALSE])]_vars

C17_Witness ==
    /\ last.msg = "SaveFile"
    /\ last.cmd = "perform"
    /\ fragment.file # None
    /\ ~fragment.is_dirty
    /\ fragment.is_loading
    /\ \E i \in DOMAIN pending :
          /\ pending[i].kind = "save"
          /\ pending[i].path = fragment.file

\* C18 (as claimed), at the step that clears the flag: when a successful
\* FileSaved comes back to the fragment that requested the save and leaves it
\* clean, not loading and with a file, the text of its buffer is the text
\* that was written.
C18_CleanMeansSaved ==
    [][\A i \in DOMAIN pending :
          (/\ Completes(i)
           /\ last'.msg = "FileSaved"
           /\ last'.arg = "Ok"
           /\ pending[i].origin = fragment_index
           /\ ~fragments'[fragment_index + 1].is_dirty
           /\ ~fragments'[fragment_index + 1].is_loading
           /\ fragments'[fragment_index + 1].file # None)
             => ContentText(fragments'[fragment_index + 1].content)
                   = pending[i].contents]_vars

\* C19 (as claimed): when every task in flight is eventually completed and
\* delivered, every fragment that is loading eventually is not loading.
C19_LoadingEnds ==
    \A d \in 1..MaxTabs :
        (d \in DOMAIN fragments /\ fragments[d].is_loading)
           ~> (d \in DOMAIN fragments /\ ~fragments[d].is_loading)

\* C20: at most one task is in flight in the whole editor, and while one is
\* in flight the active fragment has is_loading = TRUE; so after an accepted
\* OpenFile or SaveFile the task it scheduled is the only one.
C20_OneTaskOverall ==
    /\ Len(pending) <= 1
    /\ Len(pending) = 1 => fragment.is_loading
    /\ (last.msg \in {"OpenFile", "SaveFile"} /\ last.cmd = "perform")
          => /\ Len(pending) = 1
             /\ pending[1].origin = fragment_index

C20_Witness ==
    /\ Len(fragments) = 2
    /\ Len(pending) = 1
    /\ pending[1].origin # fragment_index
    /\ last.msg = "OpenFile"
    /\ last.cmd = "none"

====
